---- MODULE Spec2Model ----
(***************************************************************************)
(* Credit ledger and session accounting of the gaming hub backend:         *)
(*   services/purchases_service.py  create_purchase, apply_rollover,       *)
(*                                  check_and_expire_rollovers             *)
(*   services/sessions_service.py   start_session, end_session             *)
(*   models/member.py               balance_hours, is_expired              *)
(*   models/purchase.py             calculate_expiry_dates                 *)
(*                                                                         *)
(* A row carries the attributes by the names the services read and write   *)
(* (total_hours_granted, hours_purchased, rollover_hours, end_time,        *)
(* hours_used, ...).  A session row also carries the status column of the  *)
(* table (models/session.py), which takes its default on insert and which  *)
(* no service function assigns.                                            *)
(* Hours are DECIMAL(10,2) values and are modelled as integers counting    *)
(* hundredths of an hour.  The wall clock `now` counts seconds; a date is  *)
(* the day number now \div 86400.  A nullable column is the empty sequence *)
(* (None) or a one-element sequence.  Every service function is one        *)
(* action (it runs inside one request and ends with db.commit()).  `last`  *)
(* is the request in progress: the function that was called and how it     *)
(* returned (res is "ok" or the error raised, ret the returned count),     *)
(* until the router sends the response (Respond) and the next request can  *)
(* be served.  All the service's business errors are ValidationException;  *)
(* `res` names the raise site by the error kind of the specification's     *)
(* taxonomy.                                                               *)
(*                                                                         *)
(* Further specifications start from other ledgers or take other steps:    *)
(*   utils.py  normalize_mobile on strings of characters (SpecNormalize);  *)
(*   the service functions taken one database statement at a time by two   *)
(*   requests that each hold their own database session (SpecConcurrent);  *)
(*   rollovers applied to a member with two pending purchases              *)
(*   (SpecTwoPending); the ledger with a clock that keeps advancing and a  *)
(*   sweep that keeps being run (SpecFair).                                *)
(***************************************************************************)
EXTENDS Integers, Sequences, FiniteSets

\* ---------------------------------------------------------------- bounds
MaxPurchases == 2
MaxSessions == 2
\* rows in the purchases and gaming_sessions tables together
MaxRecords == 3

\* ------------------------------------------------------ program constants
ExpiryDays == 365
RolloverDays == 180
SecondsPerHour == 3600

\* ------------------------------------------------------------ input sets
Members == {"m1", "m2"}
MemberIds == Members \cup {"ghost"}

None == << >>
Some(v) == << v >>

\* The days the clock visits.  A purchase dated day 0 expires on day 365 and
\* its rollover deadline is day 545; one dated day 1 expires on day 366 with
\* deadline day 546.  So day 366 is the first day after expiry of the former
\* and the expiry day of the latter, and day 546 is the first day after the
\* deadline of the former and the deadline day of the latter.
Days == {0, ExpiryDays + 1, ExpiryDays + RolloverDays + 1}
\* clock readings: midnight of each of those days, and 3h29m50s into day 0
\* (3.4972 hours, which rounds up to 3.50; from there to a later midnight is
\* a whole number of hours less 3.4972, which rounds down)
TimePoints == {d * 86400 : d \in Days} \cup {12590}

HoursInputs == {0, 200}
AmountInputs == {-100, 0}
\* purchase_date: omitted, day 1, or the last day of the clock
DateInputs == {None, Some(1), Some(ExpiryDays + RolloverDays + 1)}
ManualInputs == {None, Some(-100), Some(100)}

VARIABLES now, members, purchases, sessions, last,
          mobile, requests, opening

vars == << now, members, purchases, sessions, last,
          mobile, requests, opening >>

\* date.today()
today == now \div 86400

\* no request is in progress
Idle == last.op = "idle"

\* The outcome of a call.  rerun: the call is a run of the sweep that
\* directly follows another run of the sweep (in the idle record: the
\* request just answered was the sweep).
Call(op, res, ret) ==
    [op |-> op, res |-> res, ret |-> ret,
     rerun |-> op = "check_and_expire_rollovers" /\ last.rerun]

\* The three variables below are used by the specifications of the mobile
\* normalizer and of requests served concurrently; the ledger served one
\* request at a time leaves them as they are.
\*   mobile    the string given to normalize_mobile and what it returned
\*   requests  the position and the local values of each request in flight
\*   opening   the members table as it was when the requests arrived
Workers == {"w1", "w2"}

NoMobile == [raw |-> << >>, normalized |-> None, renormalized |-> None]

\* A request: the function called (op) with its arguments, the statement
\* it is to execute next (pc), the rows its database session has loaded
\* (member, row), the hours it has granted or deducted (amount) and how it
\* returned (res).
NoRequest ==
    [op |-> "none", pc |-> "done",
     member_id |-> "", purchase_id |-> 0, session_id |-> 0,
     hours_purchased |-> 0, force |-> FALSE, manual_hours |-> None,
     member |-> None, row |-> None, amount |-> 0, res |-> "none"]

NoRequests == [w \in Workers |-> NoRequest]

\* ------------------------------------------------------------- models
balance_hours(m) == m.total_hours_granted - m.total_hours_used

is_expired(m, day) ==
    IF m.expiry_date = None THEN FALSE ELSE day > m.expiry_date[1]

\* mutant: the rollover deadline is counted from the purchase date
calculate_expiry_dates_FromPurchaseDate(p) ==
    [p EXCEPT !.expiry_date = p.purchase_date + ExpiryDays,
              !.rollover_deadline = p.purchase_date + RolloverDays]

\* lines 77-84
calculate_expiry_dates(p) ==
    LET e == p.purchase_date + ExpiryDays
    IN [p EXCEPT !.expiry_date = e, !.rollover_deadline = e + RolloverDays]

Init ==
    /\ now = 0
    /\ members = [m \in Members |->
                    [total_hours_granted |-> 0, total_hours_used |-> 0,
                     expiry_date |-> None]]
    /\ purchases = << >>
    /\ sessions = << >>
    /\ last = [op |-> "idle", res |-> "ok", ret |-> 0, rerun |-> FALSE]
    /\ mobile = NoMobile
    /\ requests = NoRequests
    /\ opening = members

\* the clock moves forward between two requests
Tick ==
    /\ Idle
    /\ \E t \in TimePoints : t > now /\ now' = t
    /\ last' = [last EXCEPT !.rerun = FALSE]
    /\ UNCHANGED << members, purchases, sessions >>
    /\ UNCHANGED << mobile, requests, opening >>

\* the router returns the response (or the error propagates to the client)
Respond ==
    /\ ~Idle
    /\ last' = [op |-> "idle", res |-> "ok", ret |-> 0,
                rerun |-> last.op = "check_and_expire_rollovers"]
    /\ UNCHANGED << now, members, purchases, sessions >>
    /\ UNCHANGED << mobile, requests, opening >>

\* ------------------------------------------------------ create_purchase
\* mutant: a purchase of zero hours is accepted
InvalidInputs_ZeroHours(hours_purchased, amount_paid) ==
    hours_purchased < 0 \/ amount_paid < 0

\* lines 62-66: the input validation
InvalidInputs(hours_purchased, amount_paid) ==
    hours_purchased <= 0 \/ amount_paid < 0

\* mutant: the member's expiry date always follows the newest purchase
LatestExpiry_Overwrite(member, purchase) == Some(purchase.expiry_date)

\* lines 93-94: the member's expiry date after this purchase
LatestExpiry(member, purchase) ==
    IF member.expiry_date = None
       \/ purchase.expiry_date > member.expiry_date[1]
    THEN Some(purchase.expiry_date)
    ELSE member.expiry_date

create_purchase(member_id, hours_purchased, amount_paid, purchase_date) ==
    /\ Idle
    /\ IF member_id \notin Members
       THEN /\ last' = Call("create_purchase", "NotFound", 0)
            /\ UNCHANGED << members, purchases >>
       ELSE IF InvalidInputs(hours_purchased, amount_paid)
       THEN /\ last' = Call("create_purchase", "InvalidArgument", 0)
            /\ UNCHANGED << members, purchases >>
       ELSE LET d == IF purchase_date = None THEN today ELSE purchase_date[1]
                purchase == calculate_expiry_dates(
                              [member_id |-> member_id,
                               purchase_date |-> d,
                               hours_purchased |-> hours_purchased,
                               expiry_date |-> 0,
                               rollover_deadline |-> 0,
                               rollover_status |-> "pending",
                               rollover_hours |-> None,
                               rollover_applied_at |-> None])
                member == members[member_id]
                granted == member.total_hours_granted + hours_purchased
                expiry == LatestExpiry(member, purchase)
            IN /\ Len(purchases) < MaxPurchases
               /\ Len(purchases) + Len(sessions) < MaxRecords
               /\ purchases' = Append(purchases, purchase)
               /\ members' = [members EXCEPT ![member_id] =
                                [member EXCEPT !.total_hours_granted = granted,
                                               !.expiry_date = expiry]]
               /\ last' = Call("create_purchase", "ok", 0)
    /\ UNCHANGED << now, sessions >>
    /\ UNCHANGED << mobile, requests, opening >>

\* ------------------------------------------------------- apply_rollover
\* mutant: only a completed rollover counts as processed
AlreadyProcessed_CompletedOnly(purchase) ==
    purchase.rollover_status \in {"completed"}

\* line 217: the rollover was already processed
\* mutant: a completed rollover can be applied again
AlreadyProcessed_ExpiredOnly(purchase) ==
    purchase.rollover_status \in {"expired"}

AlreadyProcessed(purchase) ==
    purchase.rollover_status \in {"completed", "expired"}

\* mutant: the expiry day itself counts as expired
NotYetExpired_Strict(purchase, day) == day < purchase.expiry_date

\* line 225: the purchase has not expired yet
NotYetExpired(purchase, day) == day <= purchase.expiry_date

\* mutant: the deadline day itself is too late
DeadlinePassed_Inclusive(purchase, day) == day >= purchase.rollover_deadline

\* line 231: the rollover window has closed
DeadlinePassed(purchase, day) == day > purchase.rollover_deadline

\* mutant: a purchase dated on the expiry day counts as a renewal
RenewalPurchases_FromExpiryDay(purchase) ==
    {i \in 1..Len(purchases) :
        /\ purchases[i].member_id = purchase.member_id
        /\ purchases[i].purchase_date >= purchase.expiry_date
        /\ purchases[i].purchase_date <= purchase.rollover_deadline}

\* lines 243-247: the purchases of the same member dated inside the
\* rollover window (the query takes the first, the code tests for none)
RenewalPurchases(purchase) ==
    {i \in 1..Len(purchases) :
        /\ purchases[i].member_id = purchase.member_id
        /\ purchases[i].purchase_date > purchase.expiry_date
        /\ purchases[i].purchase_date <= purchase.rollover_deadline}

\* mutant: the purchase's hours are rolled over whatever the balance
RolloverHours_NoBalanceCap(member, purchase) ==
    IF purchase.hours_purchased <= 0 THEN 0 ELSE purchase.hours_purchased

\* lines 263-266
RolloverHours(member, purchase) ==
    LET b == balance_hours(member)
        h == IF purchase.hours_purchased < b THEN purchase.hours_purchased
             ELSE b
    IN IF h <= 0 THEN 0 ELSE h

\* mutant: force does not skip the eligibility checks
EligibilityChecked_Always(force) == TRUE

\* line 223: the eligibility checks run unless the rollover is forced
EligibilityChecked(force) == ~force

apply_rollover(purchase_id, force) ==
    /\ Idle
    /\ IF purchase_id \notin 1..Len(purchases)
       THEN /\ last' = Call("apply_rollover", "NotFound", 0)
            /\ UNCHANGED << members, purchases >>
       ELSE LET purchase == purchases[purchase_id]
                member == members[purchase.member_id]
                rollover_hours == RolloverHours(member, purchase)
            IN IF AlreadyProcessed(purchase)
               THEN /\ last' = Call("apply_rollover", "InvalidState", 0)
                    /\ UNCHANGED << members, purchases >>
               ELSE IF EligibilityChecked(force) /\ NotYetExpired(purchase, today)
               THEN /\ last' = Call("apply_rollover", "InvalidState", 0)
                    /\ UNCHANGED << members, purchases >>
               ELSE IF EligibilityChecked(force) /\ DeadlinePassed(purchase, today)
               THEN /\ purchases' = [purchases EXCEPT
                          ![purchase_id].rollover_status = "expired"]
                    /\ last' = Call("apply_rollover", "DeadlineExceeded", 0)
                    /\ UNCHANGED members
               ELSE IF EligibilityChecked(force) /\ RenewalPurchases(purchase) = {}
               THEN /\ last' = Call("apply_rollover", "PreconditionFailed", 0)
                    /\ UNCHANGED << members, purchases >>
               ELSE /\ purchases' = [purchases EXCEPT ![purchase_id] =
                          [purchase EXCEPT
                             !.rollover_hours = Some(rollover_hours),
                             !.rollover_status = "completed",
                             !.rollover_applied_at = Some(today)]]
                    /\ members' = [members EXCEPT
                          ![purchase.member_id].total_hours_granted =
                             member.total_hours_granted + rollover_hours]
                    /\ last' = Call("apply_rollover", "ok", 0)
    /\ UNCHANGED << now, sessions >>
    /\ UNCHANGED << mobile, requests, opening >>

\* ------------------------------------------- check_and_expire_rollovers
\* mutant: the deadline day itself is swept
ExpiredPurchases_Inclusive(day) ==
    {i \in 1..Len(purchases) :
        /\ purchases[i].rollover_status = "pending"
        /\ purchases[i].rollover_deadline <= day}

\* mutant: the status filter is missing
ExpiredPurchases_AnyStatus(day) ==
    {i \in 1..Len(purchases) : purchases[i].rollover_deadline < day}

\* mutant: the comparison with the deadline is inverted
ExpiredPurchases_NotYet(day) ==
    {i \in 1..Len(purchases) :
        /\ purchases[i].rollover_status = "pending"
        /\ purchases[i].rollover_deadline > day}

\* lines 295-298: the pending purchases whose deadline has passed
ExpiredPurchases(day) ==
    {i \in 1..Len(purchases) :
        /\ purchases[i].rollover_status = "pending"
        /\ purchases[i].rollover_deadline < day}

check_and_expire_rollovers ==
    LET expired_purchases == ExpiredPurchases(today)
    IN /\ Idle
       /\ purchases' = [i \in 1..Len(purchases) |->
                          IF i \in expired_purchases
                          THEN [purchases[i] EXCEPT
                                  !.rollover_status = "expired"]
                          ELSE purchases[i]]
       /\ last' = Call("check_and_expire_rollovers", "ok",
                       Cardinality(expired_purchases))
       /\ UNCHANGED << now, members, sessions >>
       /\ UNCHANGED << mobile, requests, opening >>

\* -------------------------------------------------------- start_session
\* mutant: the filter on end_time is inverted
ActiveSessions_Ended(member_id) ==
    {i \in 1..Len(sessions) :
        sessions[i].member_id = member_id /\ sessions[i].end_time # None}

\* lines 63-66: the member's sessions that have no end time
ActiveSessions(member_id) ==
    {i \in 1..Len(sessions) :
        sessions[i].member_id = member_id /\ sessions[i].end_time = None}

\* mutant: a balance of exactly zero is let through
NoRemainingHours_Negative(member) == balance_hours(member) < 0

\* line 57: the member has no remaining hours
NoRemainingHours(member) == balance_hours(member) <= 0

start_session(member_id) ==
    /\ Idle
    /\ IF member_id \notin Members
       THEN /\ last' = Call("start_session", "NotFound", 0)
            /\ UNCHANGED sessions
       ELSE IF is_expired(members[member_id], today)
       THEN /\ last' = Call("start_session", "InvalidState", 0)
            /\ UNCHANGED sessions
       ELSE IF NoRemainingHours(members[member_id])
       THEN /\ last' = Call("start_session", "InvalidState", 0)
            /\ UNCHANGED sessions
       ELSE IF ActiveSessions(member_id) # {}
       THEN /\ last' = Call("start_session", "Conflict", 0)
            /\ UNCHANGED sessions
       ELSE /\ Len(sessions) < MaxSessions
            /\ Len(purchases) + Len(sessions) < MaxRecords
            /\ sessions' = Append(sessions,
                              [member_id |-> member_id, start_time |-> now,
                               end_time |-> None, hours_used |-> 0,
                               status |-> "active"])
            /\ last' = Call("start_session", "ok", 0)
    /\ UNCHANGED << now, members, purchases >>
    /\ UNCHANGED << mobile, requests, opening >>

\* ---------------------------------------------------------- end_session
\* mutant: the duration is truncated instead of rounded
DurationHours_Truncated(start_time, end_time) ==
    (end_time - start_time) \div (SecondsPerHour \div 100)

\* line 145: round(duration.total_seconds() / 3600, 2), in hundredths of an
\* hour.  No difference of two TimePoints lies halfway between two
\* hundredths (36k + 18 seconds), so the tie rule of round() never applies.
DurationHours(start_time, end_time) ==
    LET unit == SecondsPerHour \div 100   \* seconds in 0.01 hour
    IN ((end_time - start_time) + unit \div 2) \div unit

\* mutant: the deduction is not capped
CapAtBalance_NoCap(hours_to_deduct, member) == hours_to_deduct

\* lines 148-149: don't deduct more than the member's balance
CapAtBalance(hours_to_deduct, member) ==
    IF hours_to_deduct > balance_hours(member) THEN balance_hours(member)
    ELSE hours_to_deduct

\* mutant: a negative number of hours is deducted as it is
FloorAtZero_None(hours_to_deduct) == hours_to_deduct

\* lines 152-153: ensure minimum of 0
FloorAtZero(hours_to_deduct) ==
    IF hours_to_deduct < 0 THEN 0 ELSE hours_to_deduct

\* mutant: the test for a session that has ended is missing
AlreadyEnded_Never(session) == FALSE

\* mutant: the test reads the status, which end_session never changes
AlreadyEnded_ByStatus(session) == session.status # "active"

\* line 125: the session already has an end time
AlreadyEnded(session) == session.end_time # None

end_session(session_id, manual_hours) ==
    /\ Idle
    /\ IF session_id \notin 1..Len(sessions)
       THEN /\ last' = Call("end_session", "NotFound", 0)
            /\ UNCHANGED << members, sessions >>
       ELSE IF AlreadyEnded(sessions[session_id])
       THEN /\ last' = Call("end_session", "InvalidState", 0)
            /\ UNCHANGED << members, sessions >>
       ELSE LET session == sessions[session_id]
                member == members[session.member_id]
                end_time == now
                hours == IF manual_hours # None THEN manual_hours[1]
                         ELSE DurationHours(session.start_time, end_time)
                hours_to_deduct == FloorAtZero(CapAtBalance(hours, member))
            IN /\ sessions' = [sessions EXCEPT ![session_id] =
                                 [session EXCEPT
                                    !.end_time = Some(end_time),
                                    !.hours_used = hours_to_deduct]]
               /\ members' = [members EXCEPT
                     ![session.member_id].total_hours_used =
                        member.total_hours_used + hours_to_deduct]
               /\ last' = Call("end_session", "ok", 0)
    /\ UNCHANGED << now, purchases >>
    /\ UNCHANGED << mobile, requests, opening >>

\* ----------------------------------------------------- normalize_mobile
\* A string is a sequence of one-character strings.
Digits == {"0", "1", "2", "3", "4", "5", "6", "7", "8", "9"}

\* the length of a normalized number
MobileDigits == 10

IsDigit(c) == c \in Digits

\* str.startswith
startswith(digits, prefix) ==
    /\ Len(digits) >= Len(prefix)
    /\ SubSeq(digits, 1, Len(prefix)) = prefix

\* line 27: re.sub(r'\D', '', mobile)
RemoveNonDigits(raw) == SelectSeq(raw, IsDigit)

\* lines 30-31: handle country code (63)
StripCountryCode(digits) ==
    IF startswith(digits, << "6", "3" >>)
    THEN SubSeq(digits, 3, Len(digits)) ELSE digits

\* lines 34-35: handle leading zero
StripLeadingZero(digits) ==
    IF startswith(digits, << "0" >>)
    THEN SubSeq(digits, 2, Len(digits)) ELSE digits

\* mutant: the first 10 digits are taken
LastDigits_First(digits) ==
    IF Len(digits) >= MobileDigits THEN SubSeq(digits, 1, MobileDigits)
    ELSE digits

\* line 38: digits[-10:] if len(digits) >= 10 else digits
LastDigits(digits) ==
    IF Len(digits) >= MobileDigits
    THEN SubSeq(digits, Len(digits) - MobileDigits + 1, Len(digits))
    ELSE digits

\* what normalize_mobile does: it returns a string or raises ValueError
Returned(value) == [ok |-> TRUE, value |-> value]
ValueError == [ok |-> FALSE, value |-> << >>]

normalize_mobile(raw) ==
    LET normalized ==
          LastDigits(StripLeadingZero(StripCountryCode(RemoveNonDigits(raw))))
    IN IF Len(normalized) # MobileDigits THEN ValueError
       ELSE Returned(normalized)

\* The strings given to the normalizer: every prefix of at most
\* MaxPrefix characters among "+", "6", "3", "0", followed by 8 to 11
\* digits of a number, written with or without separators.
MaxPrefix == 4
Prefixes == UNION {[1..n -> {"+", "6", "3", "0"}] : n \in 0..MaxPrefix}
Number == << "9", "1", "7", "1", "2", "3", "4", "5", "6", "7", "8" >>
Bodies ==
    {SubSeq(Number, 1, n) : n \in 8..11}
    \cup {<< "9", "1", "7", "-", "1", "2", "3", " ", "4", "5", "6", "7" >>,
          << "(", "9", "1", "7", ")", "1", "2", "3", "4", "5", "6" >>}
RawInputs == {p \o b : p \in Prefixes, b \in Bodies}

\* the validator of the request schema normalizes the mobile number
\* (schemas/members.py:20-22)
Normalize ==
    /\ mobile.raw # << >>
    /\ mobile.normalized = None
    /\ mobile' = [mobile EXCEPT
                    !.normalized = Some(normalize_mobile(mobile.raw))]
    /\ UNCHANGED << now, members, purchases, sessions, last,
                    requests, opening >>

\* the service normalizes what the validator returned
\* (services/members_service.py:40)
Renormalize ==
    /\ mobile.normalized # None
    /\ mobile.normalized[1].ok
    /\ mobile.renormalized = None
    /\ mobile' = [mobile EXCEPT
                    !.renormalized =
                       Some(normalize_mobile(mobile.normalized[1].value))]
    /\ UNCHANGED << now, members, purchases, sessions, last,
                    requests, opening >>

\* ------------------------------------------- requests served together
\* Each request runs a service function on a database session of its own
\* (Depends(get_db)).  A query loads rows as they are in the database at
\* that moment; attribute assignments change the loaded objects only; and
\* db.commit() writes the changed columns with the values computed from
\* the loaded objects.  No function takes a lock or re-reads before it
\* writes.  One step is one database statement with the Python code up to
\* the next one.
At(w, op, pc) == requests[w].op = op /\ requests[w].pc = pc

\* the request goes on to statement pc
Goto(w, pc) == requests' = [requests EXCEPT ![w].pc = pc]

\* the function returns or raises
Finish(w, res, amount) ==
    requests' = [requests EXCEPT ![w].pc = "done", ![w].res = res,
                                 ![w].amount = amount]

\* create_purchase, lines 57-70: the member query and the validation
create_purchase_get_member(w) ==
    LET r == requests[w]
    IN /\ At(w, "create_purchase", "get_member")
       /\ IF r.member_id \notin Members
          THEN Finish(w, "NotFound", 0)
          ELSE IF InvalidInputs(r.hours_purchased, 0)
          THEN Finish(w, "InvalidArgument", 0)
          ELSE requests' = [requests EXCEPT
                              ![w].member = Some(members[r.member_id]),
                              ![w].pc = "commit"]
       /\ UNCHANGED << now, members, purchases, sessions, last,
                       mobile, opening >>

\* create_purchase, lines 73-96: the purchase is inserted and the member's
\* total_hours_granted and expiry_date are written as computed from the
\* member loaded at line 57
create_purchase_commit(w) ==
    LET r == requests[w]
        member == r.member[1]
        purchase == calculate_expiry_dates(
                      [member_id |-> r.member_id,
                       purchase_date |-> today,
                       hours_purchased |-> r.hours_purchased,
                       expiry_date |-> 0,
                       rollover_deadline |-> 0,
                       rollover_status |-> "pending",
                       rollover_hours |-> None,
                       rollover_applied_at |-> None])
        expiry == LatestExpiry(member, purchase)
    IN /\ At(w, "create_purchase", "commit")
       /\ purchases' = Append(purchases, purchase)
       /\ members' = [members EXCEPT ![r.member_id] =
                        [@ EXCEPT
                           !.total_hours_granted =
                              member.total_hours_granted + r.hours_purchased,
                           !.expiry_date =
                              IF expiry # member.expiry_date THEN expiry
                              ELSE @]]
       /\ Finish(w, "ok", r.hours_purchased)
       /\ UNCHANGED << now, sessions, last, mobile, opening >>

\* apply_rollover, lines 212-231: the purchase query and the tests on it
apply_rollover_get_purchase(w) ==
    LET r == requests[w]
    IN /\ At(w, "apply_rollover", "get_purchase")
       /\ IF r.purchase_id \notin 1..Len(purchases)
          THEN Finish(w, "NotFound", 0)
          ELSE LET purchase == purchases[r.purchase_id]
               IN IF AlreadyProcessed(purchase)
                  THEN Finish(w, "InvalidState", 0)
                  ELSE IF EligibilityChecked(r.force)
                          /\ NotYetExpired(purchase, today)
                  THEN Finish(w, "InvalidState", 0)
                  ELSE requests' = [requests EXCEPT
                         ![w].row = Some(purchase),
                         ![w].pc =
                            IF ~EligibilityChecked(r.force) THEN "get_member"
                            ELSE IF DeadlinePassed(purchase, today)
                            THEN "commit_expired"
                            ELSE "get_renewal"]
       /\ UNCHANGED << now, members, purchases, sessions, last,
                       mobile, opening >>

\* apply_rollover, lines 232-236: the deadline has passed
apply_rollover_commit_expired(w) ==
    LET r == requests[w]
    IN /\ At(w, "apply_rollover", "commit_expired")
       /\ purchases' = [purchases EXCEPT
                          ![r.purchase_id].rollover_status = "expired"]
       /\ Finish(w, "DeadlineExceeded", 0)
       /\ UNCHANGED << now, members, sessions, last, mobile, opening >>

\* apply_rollover, lines 239-252: the member query and the renewal query
apply_rollover_get_renewal(w) ==
    LET r == requests[w]
    IN /\ At(w, "apply_rollover", "get_renewal")
       /\ IF RenewalPurchases(r.row[1]) = {}
          THEN Finish(w, "PreconditionFailed", 0)
          ELSE requests' = [requests EXCEPT
                              ![w].member = Some(members[r.row[1].member_id]),
                              ![w].pc = "commit"]
       /\ UNCHANGED << now, members, purchases, sessions, last,
                       mobile, opening >>

\* apply_rollover, lines 257-259: the member query of a forced rollover
apply_rollover_get_member(w) ==
    LET r == requests[w]
    IN /\ At(w, "apply_rollover", "get_member")
       /\ requests' = [requests EXCEPT
                         ![w].member = Some(members[r.row[1].member_id]),
                         ![w].pc = "commit"]
       /\ UNCHANGED << now, members, purchases, sessions, last,
                       mobile, opening >>

\* apply_rollover, lines 263-276: the rollover is computed from the loaded
\* purchase and member and written
apply_rollover_commit(w) ==
    LET r == requests[w]
        purchase == r.row[1]
        member == r.member[1]
        rollover_hours == RolloverHours(member, purchase)
    IN /\ At(w, "apply_rollover", "commit")
       /\ purchases' = [purchases EXCEPT ![r.purchase_id] =
                          [@ EXCEPT
                             !.rollover_hours = Some(rollover_hours),
                             !.rollover_status = "completed",
                             !.rollover_applied_at = Some(today)]]
       /\ members' = [members EXCEPT
                        ![purchase.member_id].total_hours_granted =
                           IF rollover_hours = 0 THEN @
                           ELSE member.total_hours_granted + rollover_hours]
       /\ Finish(w, "ok", rollover_hours)
       /\ UNCHANGED << now, sessions, last, mobile, opening >>

\* check_and_expire_rollovers, lines 292-298: the query
check_and_expire_rollovers_query(w) ==
    /\ At(w, "check_and_expire_rollovers", "query")
    /\ requests' = [requests EXCEPT
                      ![w].row = Some(ExpiredPurchases(today)),
                      ![w].pc = "commit"]
    /\ UNCHANGED << now, members, purchases, sessions, last,
                    mobile, opening >>

\* check_and_expire_rollovers, lines 300-305: the loaded purchases are
\* marked expired
check_and_expire_rollovers_commit(w) ==
    LET expired_purchases == requests[w].row[1]
    IN /\ At(w, "check_and_expire_rollovers", "commit")
       /\ purchases' = [i \in 1..Len(purchases) |->
                          IF i \in expired_purchases
                          THEN [purchases[i] EXCEPT
                                  !.rollover_status = "expired"]
                          ELSE purchases[i]]
       /\ Finish(w, "ok", Cardinality(expired_purchases))
       /\ UNCHANGED << now, members, sessions, last, mobile, opening >>

\* start_session, lines 46-60: the member query and the tests on it
start_session_get_member(w) ==
    LET r == requests[w]
    IN /\ At(w, "start_session", "get_member")
       /\ IF r.member_id \notin Members
          THEN Finish(w, "NotFound", 0)
          ELSE IF is_expired(members[r.member_id], today)
          THEN Finish(w, "InvalidState", 0)
          ELSE IF NoRemainingHours(members[r.member_id])
          THEN Finish(w, "InvalidState", 0)
          ELSE Goto(w, "query_active")
       /\ UNCHANGED << now, members, purchases, sessions, last,
                       mobile, opening >>

\* start_session, lines 63-72: the query for an active session
start_session_query_active(w) ==
    /\ At(w, "start_session", "query_active")
    /\ IF ActiveSessions(requests[w].member_id) # {}
       THEN Finish(w, "Conflict", 0)
       ELSE Goto(w, "commit")
    /\ UNCHANGED << now, members, purchases, sessions, last,
                    mobile, opening >>

\* start_session, lines 75-82: the session is inserted
start_session_commit(w) ==
    /\ At(w, "start_session", "commit")
    /\ sessions' = Append(sessions,
                      [member_id |-> requests[w].member_id,
                       start_time |-> now, end_time |-> None,
                       hours_used |-> 0, status |-> "active"])
    /\ Finish(w, "ok", 0)
    /\ UNCHANGED << now, members, purchases, last, mobile, opening >>

\* end_session, lines 120-128: the session query and the test on it
end_session_get_session(w) ==
    LET r == requests[w]
    IN /\ At(w, "end_session", "get_session")
       /\ IF r.session_id \notin 1..Len(sessions)
          THEN Finish(w, "NotFound", 0)
          ELSE IF AlreadyEnded(sessions[r.session_id])
          THEN Finish(w, "InvalidState", 0)
          ELSE requests' = [requests EXCEPT
                              ![w].row = Some(sessions[r.session_id]),
                              ![w].pc = "get_member"]
       /\ UNCHANGED << now, members, purchases, sessions, last,
                       mobile, opening >>

\* end_session, lines 131-133: the member query
end_session_get_member(w) ==
    LET r == requests[w]
    IN /\ At(w, "end_session", "get_member")
       /\ requests' = [requests EXCEPT
                         ![w].member = Some(members[r.row[1].member_id]),
                         ![w].pc = "commit"]
       /\ UNCHANGED << now, members, purchases, sessions, last,
                       mobile, opening >>

\* end_session, lines 136-168: the hours are computed from the loaded
\* session and member and written
end_session_commit(w) ==
    LET r == requests[w]
        session == r.row[1]
        member == r.member[1]
        end_time == now
        hours == IF r.manual_hours # None THEN r.manual_hours[1]
                 ELSE DurationHours(session.start_time, end_time)
        hours_to_deduct == FloorAtZero(CapAtBalance(hours, member))
    IN /\ At(w, "end_session", "commit")
       /\ sessions' = [sessions EXCEPT ![r.session_id] =
                         [@ EXCEPT !.end_time = Some(end_time),
                                   !.hours_used = hours_to_deduct]]
       /\ members' = [members EXCEPT
                        ![session.member_id].total_hours_used =
                           IF hours_to_deduct = 0 THEN @
                           ELSE member.total_hours_used + hours_to_deduct]
       /\ Finish(w, "ok", hours_to_deduct)
       /\ UNCHANGED << now, purchases, last, mobile, opening >>

\* a request that has been received and not yet served
Request(op, pc) ==
    [NoRequest EXCEPT !.op = op, !.pc = pc, !.res = "running"]

\* the calls that two clients make on member m1, its purchase 1 and its
\* session 1
Calls ==
    {[Request("create_purchase", "get_member") EXCEPT
        !.member_id = "m1", !.hours_purchased = 200]}
    \cup {[Request("apply_rollover", "get_purchase") EXCEPT
             !.purchase_id = 1, !.force = f] : f \in BOOLEAN}
    \cup {Request("check_and_expire_rollovers", "query")}
    \cup {[Request("start_session", "get_member") EXCEPT
             !.member_id = "m1"]}
    \cup {[Request("end_session", "get_session") EXCEPT
             !.session_id = 1, !.manual_hours = h] : h \in {None, Some(100)}}

\* ------------------------------------------------------- specification
Next ==
    \/ Tick
    \/ Respond
    \/ \E m \in MemberIds, h \in HoursInputs, a \in AmountInputs,
          d \in DateInputs : create_purchase(m, h, a, d)
    \/ \E p \in 1..MaxPurchases, f \in BOOLEAN : apply_rollover(p, f)
    \/ check_and_expire_rollovers
    \/ \E m \in MemberIds : start_session(m)
    \/ \E s \in 1..MaxSessions, mh \in ManualInputs : end_session(s, mh)

Spec == Init /\ [][Next]_vars

\* A ledger whose purchases table already holds a row with the fourth value
\* of the RolloverStatus enumeration, which create_purchase never writes:
\* a purchase of 2.00 hours by m1 dated day 0, its hours granted.
InitNotApplicable ==
    /\ now = 0
    /\ members = [m \in Members |->
                    IF m = "m1"
                    THEN [total_hours_granted |-> 200, total_hours_used |-> 0,
                          expiry_date |-> Some(ExpiryDays)]
                    ELSE [total_hours_granted |-> 0, total_hours_used |-> 0,
                          expiry_date |-> None]]
    /\ purchases = << calculate_expiry_dates(
                         [member_id |-> "m1",
                          purchase_date |-> 0,
                          hours_purchased |-> 200,
                          expiry_date |-> 0,
                          rollover_deadline |-> 0,
                          rollover_status |-> "not_applicable",
                          rollover_hours |-> None,
                          rollover_applied_at |-> None]) >>
    /\ sessions = << >>
    /\ last = [op |-> "idle", res |-> "ok", ret |-> 0, rerun |-> FALSE]
    /\ mobile = NoMobile
    /\ requests = NoRequests
    /\ opening = members

\* The date advances whatever the server does, and the sweep is a scheduled
\* task that is run every day (purchases_service.py line 287).  Both are
\* taken between two requests, so they are enabled again and again rather
\* than without interruption: strong fairness makes them happen; every
\* request that is being served returns.
SpecFair ==
    /\ Spec
    /\ SF_vars(Tick)
    /\ WF_vars(Respond)
    /\ SF_vars(check_and_expire_rollovers)

SpecNotApplicable == InitNotApplicable /\ [][Next]_vars

\* The normalizer applied to each of the strings of RawInputs.
\* Two requests arrive together.  The ledger they find is one that the
\* requests served one at a time leave behind: member m1 bought 200 hours
\* on day 0 and has or has not a session running since then.
InitConcurrent ==
    /\ now \in TimePoints
    /\ members = [m \in Members |->
                    IF m = "m1"
                    THEN [total_hours_granted |-> 200, total_hours_used |-> 0,
                          expiry_date |-> Some(ExpiryDays)]
                    ELSE [total_hours_granted |-> 0, total_hours_used |-> 0,
                          expiry_date |-> None]]
    /\ purchases = << calculate_expiry_dates(
                         [member_id |-> "m1",
                          purchase_date |-> 0,
                          hours_purchased |-> 200,
                          expiry_date |-> 0,
                          rollover_deadline |-> 0,
                          rollover_status |-> "pending",
                          rollover_hours |-> None,
                          rollover_applied_at |-> None]) >>
    /\ sessions \in {<< >>,
                      << [member_id |-> "m1", start_time |-> 0,
                          end_time |-> None, hours_used |-> 0,
                          status |-> "active"] >>}
    /\ last = [op |-> "idle", res |-> "ok", ret |-> 0, rerun |-> FALSE]
    /\ mobile = NoMobile
    /\ requests \in [Workers -> Calls]
    /\ opening = members

NextConcurrent ==
    \E w \in Workers :
        \/ create_purchase_get_member(w)
        \/ create_purchase_commit(w)
        \/ apply_rollover_get_purchase(w)
        \/ apply_rollover_commit_expired(w)
        \/ apply_rollover_get_renewal(w)
        \/ apply_rollover_get_member(w)
        \/ apply_rollover_commit(w)
        \/ check_and_expire_rollovers_query(w)
        \/ check_and_expire_rollovers_commit(w)
        \/ start_session_get_member(w)
        \/ start_session_query_active(w)
        \/ start_session_commit(w)
        \/ end_session_get_session(w)
        \/ end_session_get_member(w)
        \/ end_session_commit(w)

SpecConcurrent == InitConcurrent /\ [][NextConcurrent]_vars

\* Member m1 holds two purchases of 200 hours made on day 0, both pending,
\* and has or has not ended a session of 100 hours; from there only
\* rollovers are applied and the sweep is run.
InitTwoPending ==
    \E used \in {0, 100} :
       /\ now = 0
       /\ members = [m \in Members |->
                       IF m = "m1"
                       THEN [total_hours_granted |-> 400,
                             total_hours_used |-> used,
                             expiry_date |-> Some(ExpiryDays)]
                       ELSE [total_hours_granted |-> 0,
                             total_hours_used |-> 0,
                             expiry_date |-> None]]
       /\ purchases = [i \in 1..2 |->
                         calculate_expiry_dates(
                           [member_id |-> "m1",
                            purchase_date |-> 0,
                            hours_purchased |-> 200,
                            expiry_date |-> 0,
                            rollover_deadline |-> 0,
                            rollover_status |-> "pending",
                            rollover_hours |-> None,
                            rollover_applied_at |-> None])]
       /\ sessions = IF used = 0 THEN << >>
                     ELSE << [member_id |-> "m1", start_time |-> 0,
                              end_time |-> Some(0), hours_used |-> used,
                              status |-> "active"] >>
       /\ last = [op |-> "idle", res |-> "ok", ret |-> 0, rerun |-> FALSE]
       /\ mobile = NoMobile
       /\ requests = NoRequests
       /\ opening = members

NextTwoPending ==
    \/ Tick
    \/ Respond
    \/ \E p \in 1..MaxPurchases, f \in BOOLEAN : apply_rollover(p, f)
    \/ check_and_expire_rollovers

SpecTwoPending == InitTwoPending /\ [][NextTwoPending]_vars

InitNormalize ==
    /\ now = 0
    /\ members = [m \in Members |->
                    [total_hours_granted |-> 0, total_hours_used |-> 0,
                     expiry_date |-> None]]
    /\ purchases = << >>
    /\ sessions = << >>
    /\ last = [op |-> "idle", res |-> "ok", ret |-> 0, rerun |-> FALSE]
    /\ mobile \in {[raw |-> r, normalized |-> None, renormalized |-> None] :
                      r \in RawInputs}
    /\ requests = NoRequests
    /\ opening = members

NextNormalize == Normalize \/ Renormalize

SpecNormalize == InitNormalize /\ [][NextNormalize]_vars

\* ============================================================== claims
\* Each property that speaks of one call quantifies over the call's
\* arguments and tests the step against the action itself, and states the
\* expected outcome in terms of the two states only.

PurchaseIds == 1..MaxPurchases
SessionIds == 1..MaxSessions
Terminal == {"completed", "expired"}

\* C1: in every reachable state every member's hours_used is at most its
\* hours_granted, i.e. balance_hours is never negative.
C1_BalanceNeverNegative ==
    \A m \in Members :
        members[m].total_hours_used <= members[m].total_hours_granted

\* a session has just been ended with its hours cut down to the balance,
\* which left the member with a balance of exactly zero
C1_Witness ==
    /\ last.op = "end_session" /\ last.res = "ok"
    /\ \E i \in 1..Len(sessions) :
          /\ sessions[i].end_time # None
          /\ sessions[i].hours_used = 200
          /\ sessions[i].end_time[1] - sessions[i].start_time > 3 * SecondsPerHour
          /\ members[sessions[i].member_id].total_hours_granted = 200
          /\ members[sessions[i].member_id].total_hours_used = 200

\* the sessions of member m that have no end time
C2_Open(m) ==
    {i \in 1..Len(sessions) :
        sessions[i].member_id = m /\ sessions[i].end_time = None}

C2_AtMostOneOpen == \A m \in Members : Cardinality(C2_Open(m)) <= 1

\* C2 as stated: each member has at most one session with no end time, and
\* start_session for a member who already has an active session fails with
\* Conflict and creates no session.
C2_Original ==
    /\ []C2_AtMostOneOpen
    /\ [][\A m \in Members :
            start_session(m) /\ C2_Open(m) # {}
            => last'.res = "Conflict" /\ sessions' = sessions]_vars

\* C2 amended: each member has at most one session with no end time;
\* start_session for a member who already has an active session fails and
\* creates no session, with Conflict when today <= the member's expiry_date
\* and with InvalidState when the plan has expired since the session began.
C2_OneActiveSession ==
    /\ []C2_AtMostOneOpen
    /\ [][\A m \in Members :
            start_session(m) /\ C2_Open(m) # {}
            => /\ sessions' = sessions
               /\ members' = members
               /\ last'.res = IF /\ members[m].expiry_date # None
                                 /\ today > members[m].expiry_date[1]
                              THEN "InvalidState" ELSE "Conflict"]_vars

\* a second start was refused with Conflict while a session is open
C2_ConflictReached ==
    /\ last.op = "start_session" /\ last.res = "Conflict"
    /\ \E m \in Members : Cardinality(C2_Open(m)) = 1

\* a start was refused with InvalidState for the member who has a session
\* open and whose plan has expired (the other member has hours left and a
\* plan that is still valid, so the refusal was not theirs)
C2_Witness ==
    /\ last.op = "start_session" /\ last.res = "InvalidState"
    /\ \E m \in Members :
          /\ Cardinality(C2_Open(m)) = 1
          /\ members[m].expiry_date # None
          /\ today > members[m].expiry_date[1]
          /\ \A o \in Members \ {m} :
                /\ members[o].total_hours_granted > members[o].total_hours_used
                /\ members[o].expiry_date # None
                /\ today <= members[o].expiry_date[1]

\* max(0, min(h, b))
C3_Clamp(h, b) ==
    LET low == IF h < b THEN h ELSE b
    IN IF low > 0 THEN low ELSE 0

\* h is secs / 3600 rounded to two decimals, in hundredths of an hour
C3_IsRounded(h, secs) ==
    LET unit == SecondsPerHour \div 100
    IN 2 * (h * unit - secs) <= unit /\ 2 * (secs - h * unit) <= unit

\* C3: a successful end_session sets the session's hours to
\* max(0, min(h, B)), h being manual_hours if supplied and else the elapsed
\* hours rounded to two decimals, B the member's balance before the call,
\* and adds exactly that to the member's hours_used.
C3_EndSessionDeducts ==
    [][\A sid \in SessionIds, mh \in ManualInputs :
         end_session(sid, mh) /\ last'.res = "ok"
         => LET m == sessions[sid].member_id
                b == members[m].total_hours_granted - members[m].total_hours_used
                secs == now - sessions[sid].start_time
                used == sessions'[sid].hours_used
            IN /\ IF mh # None THEN used = C3_Clamp(mh[1], b)
                  ELSE \E h \in {secs \div (SecondsPerHour \div 100) + k :
                                    k \in {0, 1}} :
                          C3_IsRounded(h, secs) /\ used = C3_Clamp(h, b)
               /\ members'[m].total_hours_used = members[m].total_hours_used + used
               /\ members'[m].total_hours_granted = members[m].total_hours_granted
       ]_vars

\* a session of 3h29m50s was ended for a member with a balance of 4.00: it
\* consumed 3.50 hours
C3_Witness ==
    /\ last.op = "end_session" /\ last.res = "ok"
    /\ \E i \in 1..Len(sessions) :
          /\ sessions[i].start_time = 0
          /\ sessions[i].end_time = Some(12590)
          /\ sessions[i].hours_used = 350
          /\ members[sessions[i].member_id].total_hours_granted = 400
          /\ members[sessions[i].member_id].total_hours_used = 350

\* C4: once a purchase's rollover_status is completed or expired no step
\* changes it, and apply_rollover on it (forced or not) fails with
\* InvalidState and leaves the members as they are.
C4_TerminalStatus ==
    [][\A i \in 1..Len(purchases) :
         purchases[i].rollover_status \in Terminal
         => /\ Len(purchases') >= Len(purchases)
            /\ purchases'[i].rollover_status = purchases[i].rollover_status
            /\ \A f \in BOOLEAN :
                  apply_rollover(i, f)
                  => last'.res = "InvalidState" /\ members' = members
       ]_vars

\* apply_rollover was refused with InvalidState and the only purchase on
\* record had been forfeited
C4_Witness ==
    /\ last.op = "apply_rollover" /\ last.res = "InvalidState"
    /\ Len(purchases) = 1
    /\ purchases[1].rollover_status = "expired"

C7_RenewalRequired ==
    [][\A i \in 1..Len(purchases) :
         /\ apply_rollover(i, FALSE)
         /\ purchases[i].rollover_status = "pending"
         /\ purchases[i].expiry_date < today
         /\ today <= purchases[i].rollover_deadline
         => LET renewed ==
                  \E j \in 1..Len(purchases) :
                     /\ j # i
                     /\ purchases[j].member_id = purchases[i].member_id
                     /\ purchases[i].expiry_date < purchases[j].purchase_date
                     /\ purchases[j].purchase_date <= purchases[i].rollover_deadline
            IN /\ last'.res = "ok" => renewed
               /\ ~renewed => /\ last'.res = "PreconditionFailed"
                              /\ purchases' = purchases
                              /\ members' = members
       ]_vars

\* apply_rollover failed with PreconditionFailed inside the window of a
\* purchase whose member's only other purchase is dated on its expiry day
C7_Witness ==
    /\ last.op = "apply_rollover" /\ last.res = "PreconditionFailed"
    /\ Len(purchases) = 2
    /\ purchases[1].member_id = purchases[2].member_id
    /\ purchases[1].rollover_status = "pending"
    /\ purchases[2].purchase_date = purchases[1].expiry_date
    /\ purchases[1].expiry_date < today
    /\ today <= purchases[1].rollover_deadline

\* C8: apply_rollover without force on a pending purchase while
\* today <= expiry_date fails with InvalidState, leaves the purchase pending
\* without rollover_hours and changes no member.
C8_NotYetExpired ==
    [][\A i \in 1..Len(purchases) :
         /\ apply_rollover(i, FALSE)
         /\ purchases[i].rollover_status = "pending"
         /\ today <= purchases[i].expiry_date
         => /\ last'.res = "InvalidState"
            /\ purchases'[i].rollover_status = "pending"
            /\ purchases'[i].rollover_hours = None
            /\ purchases' = purchases
            /\ members' = members
       ]_vars

\* apply_rollover was refused with InvalidState on the expiry day of the
\* only purchase, which is still pending
C8_Witness ==
    /\ last.op = "apply_rollover" /\ last.res = "InvalidState"
    /\ Len(purchases) = 1
    /\ purchases[1].rollover_status = "pending"
    /\ today = purchases[1].expiry_date

\* the purchases the sweep is to forfeit
C9_Overdue ==
    {i \in 1..Len(purchases) :
        /\ purchases[i].rollover_status = "pending"
        /\ purchases[i].rollover_deadline < today}

\* C9: check_and_expire_rollovers sets to expired exactly the pending
\* purchases with rollover_deadline < today and returns their number; every
\* other purchase, every other field and every member stay as they are.
C9_SweepFrame ==
    [][check_and_expire_rollovers
       => /\ Len(purchases') = Len(purchases)
          /\ \A i \in 1..Len(purchases) :
                purchases'[i] =
                   IF i \in C9_Overdue
                   THEN [purchases[i] EXCEPT !.rollover_status = "expired"]
                   ELSE purchases[i]
          /\ last'.res = "ok"
          /\ last'.ret = Cardinality(C9_Overdue)
          /\ members' = members
          /\ sessions' = sessions
       ]_vars

\* the sweep forfeited one purchase and left pending one whose deadline is
\* today
C9_Witness ==
    /\ last.op = "check_and_expire_rollovers" /\ last.ret = 1
    /\ \E i, j \in 1..Len(purchases) :
          /\ purchases[i].rollover_status = "expired"
          /\ purchases[i].rollover_hours = None
          /\ purchases[j].rollover_status = "pending"
          /\ purchases[j].rollover_deadline = today

\* C10: a run of check_and_expire_rollovers directly after another run
\* returns 0 and changes no purchase and no member.
C10_SweepIdempotent ==
    [][last.rerun /\ check_and_expire_rollovers
       => /\ last'.ret = 0
          /\ purchases' = purchases
          /\ members' = members
       ]_vars

\* the sweep has run twice in a row on a ledger with a forfeited purchase
C10_Witness ==
    /\ last.op = "check_and_expire_rollovers" /\ last.rerun
    /\ last.ret = 0
    /\ \E i \in 1..Len(purchases) :
          /\ purchases[i].rollover_status = "expired"
          /\ purchases[i].rollover_deadline < today

\* C11: end_session on a session that has already ended fails with
\* InvalidState and changes no session and no member; and no step of any
\* operation changes the end_time or the hours of a session that has ended
\* or adds a session's hours to the member a second time.
C11_EndOnlyOnce ==
    [][\A sid \in 1..Len(sessions) :
         sessions[sid].end_time # None
         => /\ Len(sessions') >= Len(sessions)
            /\ sessions'[sid].end_time = sessions[sid].end_time
            /\ sessions'[sid].hours_used = sessions[sid].hours_used
            /\ \A mh \in ManualInputs :
                  end_session(sid, mh)
                  => /\ last'.res = "InvalidState"
                     /\ sessions' = sessions
                     /\ members' = members
       ]_vars

\* a second end_session was refused with InvalidState; the only session on
\* record had deducted 1.00 hour and the member's hours_used is still 1.00
C11_Witness ==
    /\ last.op = "end_session" /\ last.res = "InvalidState"
    /\ Len(sessions) = 1
    /\ sessions[1].end_time # None
    /\ sessions[1].hours_used = 100
    /\ members[sessions[1].member_id].total_hours_used = 100

\* C12: start_session creates a session only for a member that exists,
\* whose expiry_date is null or not before today, and whose balance is
\* positive; for a member with today > expiry_date or with balance <= 0 it
\* fails with InvalidState, creates no session and changes no member.
C12_StartRefused ==
    [][\A m \in MemberIds :
         start_session(m)
         => LET known == m \in Members
                expired == /\ members[m].expiry_date # None
                           /\ today > members[m].expiry_date[1]
                balance == members[m].total_hours_granted
                              - members[m].total_hours_used
            IN /\ sessions' # sessions
                  => known /\ ~expired /\ balance > 0
               /\ known /\ (expired \/ balance <= 0)
                  => /\ last'.res = "InvalidState"
                     /\ sessions' = sessions
                     /\ members' = members
       ]_vars

\* start_session was refused with InvalidState while no member's plan has
\* expired and the only member with hours has used them all (2.00 of 2.00)
C12_Witness ==
    /\ last.op = "start_session" /\ last.res = "InvalidState"
    /\ \A m \in Members :
          members[m].expiry_date = None \/ today <= members[m].expiry_date[1]
    /\ \E m \in Members :
          /\ members[m].total_hours_granted = 200
          /\ members[m].total_hours_used = 200

\* C13: every purchase has expiry_date = purchase_date + 365 days and
\* rollover_deadline = expiry_date + 180 days in every reachable state, and
\* no step of any operation changes the purchase_date, expiry_date or
\* rollover_deadline of a purchase on record.
C13_ExpiryDates ==
    /\ [](\A i \in 1..Len(purchases) :
            /\ purchases[i].expiry_date = purchases[i].purchase_date + 365
            /\ purchases[i].rollover_deadline = purchases[i].expiry_date + 180)
    /\ [][\A i \in 1..Len(purchases) :
            /\ Len(purchases') >= Len(purchases)
            /\ purchases'[i].purchase_date = purchases[i].purchase_date
            /\ purchases'[i].expiry_date = purchases[i].expiry_date
            /\ purchases'[i].rollover_deadline = purchases[i].rollover_deadline
       ]_vars

\* a purchase dated day 0 (expiry 365, deadline 545) that was forfeited and
\* one dated day 1 (expiry 366, deadline 546) that was rolled over, on a
\* ledger that also holds an ended session
C13_Witness ==
    /\ Len(purchases) = 2 /\ Len(sessions) = 1
    /\ sessions[1].end_time # None
    /\ \E i, j \in 1..2 :
          /\ purchases[i].purchase_date = 0
          /\ purchases[i].expiry_date = 365
          /\ purchases[i].rollover_deadline = 545
          /\ purchases[i].rollover_status = "expired"
          /\ purchases[j].purchase_date = 1
          /\ purchases[j].expiry_date = 366
          /\ purchases[j].rollover_deadline = 546
          /\ purchases[j].rollover_status = "completed"

\* the purchases of member m
C14_Own(m) == {i \in 1..Len(purchases) : purchases[i].member_id = m}

\* C14: in every reachable state a member's expiry_date is null if the
\* member has no purchase and otherwise is the greatest expiry_date of the
\* member's purchases, whatever the order of their dates; and no step
\* lowers it or sets it back to null.
C14_MemberExpiry ==
    /\ [](\A m \in Members :
            IF C14_Own(m) = {} THEN members[m].expiry_date = None
            ELSE /\ members[m].expiry_date # None
                 /\ \E i \in C14_Own(m) :
                       purchases[i].expiry_date = members[m].expiry_date[1]
                 /\ \A i \in C14_Own(m) :
                       purchases[i].expiry_date <= members[m].expiry_date[1])
    /\ [][\A m \in Members :
            members[m].expiry_date # None
            => /\ members'[m].expiry_date # None
               /\ members'[m].expiry_date[1] >= members[m].expiry_date[1]
       ]_vars

\* a member bought a purchase dated day 546 and then a back-dated one dated
\* day 1: the member's expiry_date is still that of the first
C14_Witness ==
    /\ last.op = "create_purchase" /\ last.res = "ok"
    /\ Len(purchases) = 2
    /\ purchases[1].member_id = purchases[2].member_id
    /\ purchases[1].purchase_date = 546
    /\ purchases[2].purchase_date = 1
    /\ members[purchases[1].member_id].expiry_date = Some(546 + 365)

\* C15: create_purchase fails with NotFound for an unknown member (given
\* valid hours and amount) and with InvalidArgument for hours <= 0 or
\* amount < 0 (given a known member), and with one of the two when both
\* apply; in each of these cases no purchase is recorded and no member
\* changes.  Stated by the outcome of the step: a successful call had a
\* known member and valid inputs; a refused call changed nothing, was not
\* answered NotFound for a known member, and was not answered
\* InvalidArgument for valid inputs of an unknown member.
C15_CreateRefused ==
    [][last'.op = "create_purchase"
       => IF last'.res = "ok"
          THEN \A m \in MemberIds, h \in HoursInputs, a \in AmountInputs,
                  d \in DateInputs :
                 m \notin Members \/ h <= 0 \/ a < 0
                 => ~create_purchase(m, h, a, d)
          ELSE /\ last'.res \in {"NotFound", "InvalidArgument"}
               /\ purchases' = purchases
               /\ members' = members
               /\ \A m \in MemberIds, h \in HoursInputs, a \in AmountInputs,
                     d \in DateInputs :
                    \/ /\ last'.res = "NotFound"
                       /\ m \in Members /\ (h <= 0 \/ a < 0)
                    \/ /\ last'.res = "InvalidArgument"
                       /\ m \notin Members /\ ~(h <= 0 \/ a < 0)
                    => ~create_purchase(m, h, a, d)
       ]_vars

\* create_purchase was refused with InvalidArgument on a ledger that holds
\* one purchase of 2.00 hours, and the members hold 2.00 hours in all
C15_Witness ==
    /\ last.op = "create_purchase" /\ last.res = "InvalidArgument"
    /\ Len(purchases) = 1
    /\ purchases[1].hours_purchased = 200
    /\ members[purchases[1].member_id].total_hours_granted = 200
    /\ \A m \in Members \ {purchases[1].member_id} :
          /\ members[m].total_hours_granted = 0
          /\ members[m].expiry_date = None

\* C16: apply_rollover with force on a pending purchase succeeds whatever
\* today is and whether or not a renewal exists, sets rollover_hours =
\* max(0, min(balance before, hours of the purchase)) and status completed
\* and adds rollover_hours to the member's hours_granted, as an unforced
\* success does; with force on a completed or expired purchase it fails
\* with InvalidState and changes nothing.
C16_ForcedRollover ==
    [][\A i \in 1..Len(purchases) :
         apply_rollover(i, TRUE)
         => LET m == purchases[i].member_id
                b == members[m].total_hours_granted - members[m].total_hours_used
                hp == purchases[i].hours_purchased
                low == IF b < hp THEN b ELSE hp
                rh == IF low > 0 THEN low ELSE 0
            IN /\ purchases[i].rollover_status = "pending"
                  => /\ last'.res = "ok"
                     /\ purchases'[i].rollover_hours = Some(rh)
                     /\ purchases'[i].rollover_status = "completed"
                     /\ members'[m].total_hours_granted =
                           members[m].total_hours_granted + rh
                     /\ members'[m].total_hours_used =
                           members[m].total_hours_used
               /\ purchases[i].rollover_status \in {"completed", "expired"}
                  => /\ last'.res = "InvalidState"
                     /\ purchases' = purchases
                     /\ members' = members
       ]_vars

\* a rollover was applied on a day before the purchase's expiry_date, which
\* only force allows, for a member without any other purchase
C16_Witness ==
    /\ last.op = "apply_rollover" /\ last.res = "ok"
    /\ Len(purchases) = 1
    /\ purchases[1].rollover_status = "completed"
    /\ purchases[1].rollover_applied_at = Some(today)
    /\ today < purchases[1].expiry_date
    /\ purchases[1].rollover_hours = Some(200)

C18_SessionStatus ==
    \A i \in 1..Len(sessions) :
        /\ sessions[i].end_time # None
           <=> sessions[i].status \in {"completed", "voided"}
        /\ sessions[i].status = "active" => sessions[i].hours_used = 0

\* C20: in every step of every operation, successful or refused, no
\* member's hours_granted decreases and no member's hours_used decreases.
C20_TotalsMonotonic ==
    [][\A m \in Members :
         /\ members'[m].total_hours_granted >= members[m].total_hours_granted
         /\ members'[m].total_hours_used >= members[m].total_hours_used
       ]_vars

\* the only session was ended hours after it began with 0 hours deducted
\* from a member who has a balance left (negative manual hours were floored
\* at 0), and that member's purchase was rolled over with a grant
C20_Witness ==
    /\ last.op = "end_session" /\ last.res = "ok"
    /\ Len(sessions) = 1
    /\ sessions[1].end_time # None
    /\ sessions[1].end_time[1] - sessions[1].start_time > SecondsPerHour
    /\ sessions[1].hours_used = 0
    /\ members[sessions[1].member_id].total_hours_granted
          > members[sessions[1].member_id].total_hours_used
    /\ \E i \in 1..Len(purchases) :
          /\ purchases[i].member_id = sessions[1].member_id
          /\ purchases[i].rollover_status = "completed"
          /\ purchases[i].rollover_hours # None
          /\ purchases[i].rollover_hours[1] > 0

\* "+639171234567" and "09171234567"
C21_International ==
    << "+", "6", "3" >> \o SubSeq(Number, 1, 10)
C21_National == << "0" >> \o SubSeq(Number, 1, 10)

\* C21: whenever normalize succeeds on a string, normalize of the result
\* succeeds too and returns the same string; and "+639171234567" and
\* "09171234567" both normalize to "9171234567".
C21_Idempotent ==
    /\ mobile.renormalized # None
       => mobile.renormalized[1] = mobile.normalized[1]
    /\ mobile.normalized # None
       /\ mobile.raw \in {C21_International, C21_National}
       => mobile.normalized[1] =
             [ok |-> TRUE,
              value |-> << "9", "1", "7", "1", "2", "3", "4", "5", "6", "7" >>]

\* the digit characters of raw, in order
C22_DigitsOf(raw) == SelectSeq(raw, LAMBDA c : c \in Digits)

\* how many leading digits the removal of one "63" and then of one "0"
\* takes away
C22_Dropped(d) ==
    LET cc == IF Len(d) >= 2 /\ d[1] = "6" /\ d[2] = "3" THEN 2 ELSE 0
        zero == IF Len(d) > cc /\ d[cc + 1] = "0" THEN 1 ELSE 0
    IN cc + zero

\* C22: normalize(raw) fails exactly when fewer than 10 digits remain after
\* removing the non-digits, one leading "63" and then one leading "0";
\* otherwise it returns exactly 10 digits, the last 10 of those that remain.
C22_NormalizeContract ==
    mobile.normalized # None
    => LET d == C22_DigitsOf(mobile.raw)
           left == Len(d) - C22_Dropped(d)
           out == mobile.normalized[1]
       IN /\ ~out.ok <=> left < 10
          /\ out.ok
             => /\ Len(out.value) = 10
                /\ \A i \in 1..10 :
                      /\ out.value[i] \in Digits
                      /\ out.value[i] = d[Len(d) - 10 + i]

\* "+630" followed by 11 digits was normalized to the last 10 of them
C22_Witness ==
    /\ mobile.raw = << "+", "6", "3", "0" >> \o Number
    /\ mobile.normalized =
          Some([ok |-> TRUE, value |-> SubSeq(Number, 2, 11)])

\* C23: two start_session requests for one member that interleave never
\* leave the member with two active sessions.
C23_OneActiveSession ==
    \A m \in Members : Cardinality(ActiveSessions(m)) <= 1

\* the functions that the two requests run
C24_Ops == {requests[w].op : w \in Workers}

\* every request has returned
C24_Done == \A w \in Workers : requests[w].pc = "done"

\* the member whose balance a request has changed
C24_MemberOf(r) ==
    IF r.op = "create_purchase" THEN r.member_id
    ELSE IF r.op = "apply_rollover" THEN purchases[r.purchase_id].member_id
    ELSE sessions[r.session_id].member_id

\* the hours that the requests among ws running one of ops have granted to
\* or deducted from member m
RECURSIVE C24_Amounts(_, _, _)
C24_Amounts(ws, ops, m) ==
    IF ws = {} THEN 0
    ELSE LET w == CHOOSE x \in ws : TRUE
             r == requests[w]
         IN (IF r.op \in ops /\ r.res = "ok" /\ C24_MemberOf(r) = m
             THEN r.amount ELSE 0)
            + C24_Amounts(ws \ {w}, ops, m)

\* C24: when two create_purchase requests, create_purchase and
\* apply_rollover, or create_purchase and end_session interleave on one
\* member, then once both have returned the member's total_hours_granted
\* is the opening value plus every amount granted and total_hours_used is
\* the opening value plus every amount deducted.
C24_NoLostUpdate ==
    (/\ C24_Done
     /\ C24_Ops \in {{"create_purchase"},
                     {"create_purchase", "apply_rollover"},
                     {"create_purchase", "end_session"}})
    => \A m \in Members :
          /\ members[m].total_hours_granted =
                opening[m].total_hours_granted
                + C24_Amounts(Workers, {"create_purchase", "apply_rollover"},
                              m)
          /\ members[m].total_hours_used =
                opening[m].total_hours_used
                + C24_Amounts(Workers, {"end_session"}, m)

\* C25: when check_and_expire_rollovers and apply_rollover interleave on
\* one pending purchase, then once both have returned a purchase that is
\* expired has no rollover_hours and has granted nothing, and
\* rollover_hours is set or hours were granted only if it is completed.
C25_TerminalAgrees ==
    (/\ \A w \in Workers : requests[w].pc = "done"
     /\ {requests[w].op : w \in Workers}
           = {"check_and_expire_rollovers", "apply_rollover"})
    => \A i \in 1..Len(purchases) :
          LET purchase == purchases[i]
              granted ==
                 members[purchase.member_id].total_hours_granted
                 - opening[purchase.member_id].total_hours_granted
          IN /\ purchase.rollover_status = "expired"
                   => purchase.rollover_hours = None /\ granted = 0
             /\ (purchase.rollover_hours # None \/ granted # 0)
                   => purchase.rollover_status = "completed"

\* C29: when two apply_rollover requests interleave on one pending
\* purchase, the member's total_hours_granted grows by no more than the
\* rollover_hours of the purchase.
C29_GrantedOnce ==
    (\A w \in Workers : requests[w].op = "apply_rollover")
    => \A i \in 1..Len(purchases) :
          LET purchase == purchases[i]
          IN members[purchase.member_id].total_hours_granted
             - opening[purchase.member_id].total_hours_granted
             <= IF purchase.rollover_hours = None THEN 0
                ELSE purchase.rollover_hours[1]

\* the sum of f[i] over the indices in S
RECURSIVE C26_Sum(_, _)
C26_Sum(f, S) ==
    IF S = {} THEN 0
    ELSE LET i == CHOOSE x \in S : TRUE
         IN f[i] + C26_Sum(f, S \ {i})

\* what purchase i has granted: its hours, and its rollover_hours once
\* the rollover is completed
C26_Grant(i) ==
    purchases[i].hours_purchased
    + (IF purchases[i].rollover_status = "completed"
       THEN purchases[i].rollover_hours[1] ELSE 0)

\* C26: with the operations executed one at a time, a member's
\* total_hours_granted is the sum of the hours of the member's purchases
\* plus the rollover_hours of those that are completed; so the grant of a
\* purchase is applied exactly when the purchase exists.
C26_GrantedIsSum ==
    \A m \in Members :
       members[m].total_hours_granted =
          C26_Sum([i \in 1..Len(purchases) |-> C26_Grant(i)],
                  {i \in 1..Len(purchases) : purchases[i].member_id = m})

C26_Witness ==
    \E m \in Members :
       /\ Cardinality({i \in 1..Len(purchases) :
                          purchases[i].member_id = m}) = 2
       /\ \E i \in 1..Len(purchases) :
             /\ purchases[i].member_id = m
             /\ purchases[i].rollover_status = "completed"
             /\ purchases[i].rollover_hours[1] > 0
       /\ \E i \in 1..Len(purchases) :
             /\ purchases[i].member_id = m
             /\ purchases[i].rollover_status = "expired"

\* C27: with the operations executed one at a time, a member's
\* total_hours_used is the sum of hours_used over the member's ended
\* sessions; a session that is active has deducted nothing.
C27_UsedIsSum ==
    \A m \in Members :
       /\ members[m].total_hours_used =
             C26_Sum([i \in 1..Len(sessions) |-> sessions[i].hours_used],
                     {i \in 1..Len(sessions) :
                         /\ sessions[i].member_id = m
                         /\ sessions[i].end_time # None})
       /\ \A i \in ActiveSessions(m) : sessions[i].hours_used = 0

C27_Witness ==
    \E m \in Members :
       /\ \E i \in 1..Len(sessions) :
             /\ sessions[i].member_id = m
             /\ sessions[i].end_time # None
             /\ sessions[i].hours_used > 0
       /\ ActiveSessions(m) # {}
       /\ members[m].total_hours_used > 0

\* C28: when the rollover of two pending purchases of one member is
\* applied one after the other, with no purchase or session operation in
\* between, the two rollover_hours together are no more than the balance
\* the member had before the first.
C28_NoDoubleCount ==
    \A i, j \in 1..Len(purchases) :
       (/\ i # j
        /\ purchases[i].member_id = purchases[j].member_id
        /\ purchases[i].rollover_status = "completed"
        /\ purchases[j].rollover_status = "completed")
       => purchases[i].rollover_hours[1] + purchases[j].rollover_hours[1]
          <= balance_hours(opening[purchases[i].member_id])

\* the last day of the clock
C30_LastDay == ExpiryDays + RolloverDays + 1

\* purchase i is pending and its deadline passes before the clock ends
C30_Pending(i) ==
    /\ i \in 1..Len(purchases)
    /\ purchases[i].rollover_status = "pending"
    /\ purchases[i].rollover_deadline < C30_LastDay

====
